---------------------------- MODULE Spec2Model ----------------------------
(***************************************************************************)
(* The chat request pipeline of lumokit (src/src/api/chat/controllers.py): *)
(* signature check, entitlement and model-tier gate, daily quota,          *)
(* conversation-key resolution, creation of the Requests row, and the      *)
(* streamed generation with its persistence side effects.                  *)
(*                                                                         *)
(* Every chat submission runs in a slot; the slot's variables are the      *)
(* locals of process_chat_request / stream_response.  The Requests table   *)
(* is the sequence rows (a row's id is its index), shared by all slots.    *)
(***************************************************************************)
EXTENDS Integers, Sequences, FiniteSets, TLC

(***************************************************************************)
(* Bounds of the model.                                                    *)
(***************************************************************************)
MaxTime == 2
DayLen == 2
MaxTokens == 2
MaxLlmCalls == 2
FreeLimit == 1
ProLimit == 2
MaxFaults == 1

\* The handler instances (one per submission being processed).
Slots == {"h1", "h2", "h3"}

(***************************************************************************)
(* Values.                                                                 *)
(***************************************************************************)
NoneStr == "<None>"
NullInt == -1
None == [some |-> FALSE]
Some(x) == [some |-> TRUE, val |-> x]

PubKeys == {"U1", "U2"}
Signers == PubKeys \cup {"garbage"}
Keys == {"k1", "k2"}

\* AllowedModelName of the request schema, each spelled out in characters so
\* that the substring and prefix tests of the controller are computed.
AllowedModelName ==
    [gpt41      |-> <<"g","p","t","-","4",".","1">>,
     gpt41mini  |-> <<"g","p","t","-","4",".","1","-","m","i","n","i">>,
     gpt4o      |-> <<"g","p","t","-","4","o">>,
     claude     |-> <<"a","n","t","h","r","o","p","i","c","/","c","l","a","u","d","e","-","3",".","7","-","s","o","n","n","e","t">>,
     gemini     |-> <<"g","o","o","g","l","e","/","g","e","m","i","n","i","-","2",".","5","-","p","r","o","-","p","r","e","v","i","e","w">>,
     llama      |-> <<"m","e","t","a","-","l","l","a","m","a","/","l","l","a","m","a","-","4","-","m","a","v","e","r","i","c","k">>,
     lumo70b    |-> <<"l","u","m","o","-","7","0","b">>,
     lumo8b     |-> <<"l","u","m","o","-","8","b">>,
     lumods8b   |-> <<"l","u","m","o","-","d","e","e","p","s","e","e","k","-","8","b">>]

ModelNames == {AllowedModelName[f] : f \in DOMAIN AllowedModelName}
DefaultModel == AllowedModelName.gpt41mini
NoModel == <<>>

\* s.startswith(p)
StartsWith(s, p) ==
    /\ Len(p) <= Len(s)
    /\ SubSeq(s, 1, Len(p)) = p

\* p in s
Contains(s, p) ==
    \E i \in 1..(Len(s) - Len(p) + 1) : SubSeq(s, i, i + Len(p) - 1) = p

LumoPrefix == <<"l","u","m","o","-">>
GptMarker == <<"g","p","t">>

\* The tool registry of stream_response (available_tools) and the two defaults.
DefaultTools == <<"wallet_portfolio_tool", "token_identification_tool">>
AvailableTools ==
    {"rugcheck_token_information_tool", "fluxbeam_token_price_tool",
     "jupiter_token_price_tool", "jupiter_token_information_tool",
     "jupiter_swap_tool", "dexscreener_top_boosts_tool",
     "dexscreener_token_information_tool", "birdeye_token_trending_tool",
     "birdeye_all_time_trades_tool", "cmc_crypto_news_tool",
     "cmc_trending_coins_tool", "cn_memecoins_news_tool",
     "geckoterminal_trending_pumpfun_tool", "coingecko_global_crypto_data_tool",
     "coingecko_trending_tool", "coingecko_exchange_rates_tool",
     "coingecko_coin_data_tool", "solana_send_sol_tool",
     "solana_send_spl_tokens_tool", "solana_burn_token_tool",
     "pumpfun_launch_coin_tool"}



\* A signature is the pair (who signed, the key named in the challenge string).
Sign(signer, pk) == [signer |-> signer, over |-> pk]

\* Texts are sequences of units: single characters where the code looks
\* inside a text, whole phrases where it only passes the text on.
\* Error messages of the gating stages and of the tool authorization.
AuthError == <<"Authentication failed, please relogin and try again.">>
ModelTierError == <<"Free users can only use the default gpt-4.1-mini model or Lumo models. Upgrade to Pro for access to additional models.">>
ProLimitError == <<"You've hit today's message limit. It will reset automatically tomorrow.">>
FreeLimitError == <<"You've reached today's message limit. Upgrade to Pro for more access.">>
ToolLimitError == <<"Free users can only use one additional tool beyond the defaults. Upgrade to Pro for access to more tools.">>

\* Chunks of the response stream: json.dumps of the key, json.dumps of an
\* error, or raw response text.
KeyChunk(k) == [kind |-> "conversation_key", val |-> k]
ErrorChunk(e) == [kind |-> "error", val |-> e]
TextChunk(t) == [kind |-> "text", val |-> t]

Message == <<"h","i">>
ErrorPrefix == <<"E","r","r","o","r",":"," ">>
\* str(e) of the exception a model or tool call raises.
ExceptionText == <<"b","o","o","m">>
\* json.dumps({"error": e}) as a text.
ErrorJson(e) == <<"{", "\"error\"", ": ">> \o e \o <<"}">>

(***************************************************************************)
(* State.                                                                  *)
(***************************************************************************)
VARIABLES
    now,                  \* the clock (datetime.utcnow / func.now)
    users,                \* the users table: pubkey -> premium_end
    rows,                 \* the requests table, in id order
    rows_before,          \* the requests table as each submission found it
    pc,                   \* where each handler stands
    req,                  \* chat_request
    stages,               \* the pipeline stages the handler has executed
    is_pro_user,
    today_start,
    today_request_count,
    conversation_key,
    minted,               \* whether generate_conversation_key() was called
    existing_convo,       \* result of the lookup of the supplied key
    request_id,
    stream,               \* the chunks delivered to the caller, in order
    conversation_history, \* ids of the rows the history query returned
    tools,                \* the tool list handed to the agent
    chat,                 \* the backend the chat model was set up with
    input_token_count,
    full_response_text,
    generated_text,       \* stream_handler.generated_text
    last_db_update,       \* stream_handler.last_db_update
    llm_calls,            \* model calls started in this turn
    invoked,              \* number of tool invocations of the agent in this turn
    propagated,           \* whether an exception left the handler or its stream unconverted
    faults,               \* database operations that have failed so far
    reply,                \* what the last read endpoint call returned
    sys_stdout,           \* the sink sys.stdout points at
    debug,                \* the debug flag of the generation library (set_debug)
    original_stdout,      \* DebugCaptureCallbackHandler.original_stdout
    sinks                 \* what each sink has received: the handler that printed it

dbVars == <<users, rows>>
\* The submission itself, fixed once it has arrived.
subVars == <<req, rows_before>>
\* What the steps of an undisturbed chat turn leave alone.
outVars == <<sys_stdout, debug, original_stdout, sinks>>
sideVars == <<propagated, faults, reply, outVars>>
gateVars == <<is_pro_user, today_start, today_request_count, conversation_key, minted,
              existing_convo, request_id>>
genVars == <<conversation_history, tools, chat, input_token_count,
             full_response_text, generated_text, last_db_update, llm_calls,
             invoked>>
vars == <<now, users, rows, rows_before, pc, req, stages, is_pro_user,
          today_start, today_request_count, conversation_key, minted, existing_convo,
          request_id, stream, conversation_history, tools, chat, input_token_count,
          full_response_text, generated_text, last_db_update, llm_calls,
          invoked, propagated, faults, reply, sys_stdout, debug,
          original_stdout, sinks>>

\* The values chat submissions are drawn from.
ReqSignatures(pk) == {Sign(pk, pk), Sign("garbage", pk), Sign(pk, "garbage")}
OtherKey(pk) == CHOOSE p \in PubKeys : p # pk
ReqModels == {NoModel, AllowedModelName.gpt41mini, AllowedModelName.gpt4o,
              AllowedModelName.lumo8b}
ReqTools == {<<>>,
             <<"jupiter_swap_tool">>,
             <<"jupiter_swap_tool", "rugcheck_token_information_tool", "cmc_crypto_news_tool">>}
ReqKeys == Keys \cup {NoneStr}

ChatRequest(pk, sig, key, model, tl) ==
    [public_key |-> pk, signature |-> sig, conversation_key |-> key,
     message |-> Message, model_name |-> model, tools |-> tl]

\* Submissions varying one aspect at a time: the signature, the conversation
\* key, and the model together with the tool list.
ChatRequests ==
    UNION {{ChatRequest(pk, sig, NoneStr, DefaultModel, <<>>) :
               sig \in ReqSignatures(pk) \cup {Sign(OtherKey(pk), OtherKey(pk))}}
           \cup {ChatRequest(pk, Sign(pk, pk), key, DefaultModel, <<>>) : key \in ReqKeys}
           \cup {ChatRequest(pk, Sign(pk, pk), NoneStr, model, <<>>) : model \in ReqModels}
           \cup {ChatRequest(pk, Sign(pk, pk), NoneStr, model, tl) :
                    model \in {DefaultModel, AllowedModelName.lumo8b}, tl \in ReqTools} :
           pk \in PubKeys}

\* No chat model has been set up.
NoBackend == [base_url |-> NoneStr, max_tokens |-> NullInt, tool_calling |-> FALSE]

BlankRequest == ChatRequest("U1", Sign("garbage", "U1"), NoneStr, NoModel, <<>>)

\* No read endpoint has been called yet.
NoReply ==
    [endpoint |-> "none", public_key |-> NoneStr, signature |-> NoneStr,
     conversation_key |-> NoneStr, nrows |-> 0, seen |-> {}, response |-> NoneStr]

NoUser == [exists |-> FALSE, premium_end |-> NullInt]
UserRow(premium_end) == [exists |-> TRUE, premium_end |-> premium_end]

(***************************************************************************)
(* The clock.                                                              *)
(***************************************************************************)
\* The handler reads the clock up to the creation of its row.
ClockObserved == \E r \in Slots : pc[r] \in {"idle", "verify", "entitle", "quota", "resolve", "create"}

Tick ==
    /\ now < MaxTime
    /\ ClockObserved
    /\ now' = now + 1
    /\ UNCHANGED <<dbVars, pc, subVars, sideVars, stages, gateVars, stream, genVars>>

(***************************************************************************)
(* router.chat: a submission arrives and process_chat_request starts.      *)
(***************************************************************************)
Submit(r, cr) ==
    /\ pc[r] = "idle"
    /\ req' = [req EXCEPT ![r] = cr]
    /\ rows_before' = [rows_before EXCEPT ![r] = rows]
    /\ pc' = [pc EXCEPT ![r] = "verify"]
    /\ stages' = [stages EXCEPT ![r] = {}]
    /\ is_pro_user' = [is_pro_user EXCEPT ![r] = FALSE]
    /\ today_start' = [today_start EXCEPT ![r] = NullInt]
    /\ today_request_count' = [today_request_count EXCEPT ![r] = NullInt]
    /\ conversation_key' = [conversation_key EXCEPT ![r] = NoneStr]
    /\ minted' = [minted EXCEPT ![r] = FALSE]
    /\ existing_convo' = [existing_convo EXCEPT ![r] = FALSE]
    /\ request_id' = [request_id EXCEPT ![r] = 0]
    /\ stream' = [stream EXCEPT ![r] = <<>>]
    /\ conversation_history' = [conversation_history EXCEPT ![r] = <<>>]
    /\ tools' = [tools EXCEPT ![r] = <<>>]
    /\ chat' = [chat EXCEPT ![r] = NoBackend]
    /\ input_token_count' = [input_token_count EXCEPT ![r] = NullInt]
    /\ full_response_text' = [full_response_text EXCEPT ![r] = <<>>]
    /\ generated_text' = [generated_text EXCEPT ![r] = <<>>]
    /\ last_db_update' = [last_db_update EXCEPT ![r] = 0]
    /\ llm_calls' = [llm_calls EXCEPT ![r] = 0]
    /\ invoked' = [invoked EXCEPT ![r] = 0]
    /\ UNCHANGED <<now, dbVars, sideVars>>

(***************************************************************************)
(* verify_signature: the signature verifies against the claimed key over   *)
(* the challenge string naming that key.                                   *)
(***************************************************************************)
\* A verification that checks who signed but not what was signed.
verify_signature_signer_only(public_key, signature) ==
    signature.signer = public_key

verify_signature(public_key, signature) ==
    /\ signature.signer = public_key
    /\ signature.over = public_key

VerifySignature(r) ==
    /\ pc[r] = "verify"
    /\ stages' = [stages EXCEPT ![r] = @ \cup {"verify"}]
    /\ IF verify_signature(req[r].public_key, req[r].signature)
       THEN /\ pc' = [pc EXCEPT ![r] = "entitle"]
            /\ UNCHANGED stream
       ELSE /\ pc' = [pc EXCEPT ![r] = "done"]
            /\ stream' = [stream EXCEPT ![r] = <<ErrorChunk(AuthError)>>]
    /\ UNCHANGED <<now, dbVars, subVars, sideVars, gateVars, genVars>>

(***************************************************************************)
(* check_user_pro_status and the model-tier gate.                          *)
(***************************************************************************)
\* The lookup with >= in place of >.
check_user_pro_status_inclusive(public_key) ==
    IF users[public_key].exists /\ users[public_key].premium_end >= now
    THEN [is_pro |-> TRUE,
          days_remaining |-> (users[public_key].premium_end - now) \div DayLen]
    ELSE [is_pro |-> FALSE, days_remaining |-> NullInt]

check_user_pro_status(public_key) ==
    IF ~users[public_key].exists
    THEN [is_pro |-> FALSE, days_remaining |-> NullInt]
    ELSE IF users[public_key].premium_end # NullInt /\ users[public_key].premium_end > now
         THEN [is_pro |-> TRUE,
               days_remaining |-> (users[public_key].premium_end - now) \div DayLen]
         ELSE [is_pro |-> FALSE, days_remaining |-> NullInt]

\* The gate without its tier test.
ModelTierRejectedAnyTier(pro, model_name) ==
    /\ model_name # NoModel
    /\ model_name # DefaultModel
    /\ ~StartsWith(model_name, LumoPrefix)

\* The condition of the model-tier rejection.
ModelTierRejected(pro, model_name) ==
    /\ ~pro
    /\ model_name # NoModel
    /\ model_name # DefaultModel
    /\ ~StartsWith(model_name, LumoPrefix)

CheckEntitlement(r) ==
    /\ pc[r] = "entitle"
    /\ stages' = [stages EXCEPT ![r] = @ \cup {"entitlement"}]
    /\ LET pro == check_user_pro_status(req[r].public_key).is_pro IN
        /\ is_pro_user' = [is_pro_user EXCEPT ![r] = pro]
        /\ IF ModelTierRejected(pro, req[r].model_name)
           THEN /\ pc' = [pc EXCEPT ![r] = "done"]
                /\ stream' = [stream EXCEPT ![r] = <<ErrorChunk(ModelTierError)>>]
           ELSE /\ pc' = [pc EXCEPT ![r] = "quota"]
                /\ UNCHANGED stream
    /\ UNCHANGED <<now, dbVars, subVars, sideVars, today_start, today_request_count,
                   conversation_key, minted, existing_convo, request_id, genVars>>

(***************************************************************************)
(* The daily quota.                                                        *)
(***************************************************************************)
\* datetime.utcnow().replace(hour=0, minute=0, second=0, microsecond=0)
DayStart(t) == (t \div DayLen) * DayLen

RowIds == 1..Len(rows)

\* db.query(Requests).filter(pubkey == pk, time >= today_start).count()
TodayCount(pk, start) ==
    Cardinality({i \in RowIds : rows[i].pubkey = pk /\ rows[i].time >= start})

DailyLimit(pro) == IF pro THEN ProLimit ELSE FreeLimit

\* The comparison off by one: a caller at the allowance is still admitted.
QuotaExceededStrict(pro, count) == count > DailyLimit(pro)

\* The condition of the rate-limit rejection.
QuotaExceeded(pro, count) == count >= DailyLimit(pro)

CheckQuota(r) ==
    /\ pc[r] = "quota"
    /\ stages' = [stages EXCEPT ![r] = @ \cup {"quota"}]
    /\ LET count == TodayCount(req[r].public_key, DayStart(now)) IN
        /\ today_start' = [today_start EXCEPT ![r] = DayStart(now)]
        /\ today_request_count' = [today_request_count EXCEPT ![r] = count]
        /\ IF QuotaExceeded(is_pro_user[r], count)
           THEN /\ pc' = [pc EXCEPT ![r] = "done"]
                /\ stream' = [stream EXCEPT ![r] =
                      <<ErrorChunk(IF is_pro_user[r] THEN ProLimitError ELSE FreeLimitError)>>]
           ELSE /\ pc' = [pc EXCEPT ![r] = "resolve"]
                /\ UNCHANGED stream
    /\ UNCHANGED <<now, dbVars, subVars, sideVars, is_pro_user, conversation_key,
                   minted, existing_convo, request_id, genVars>>

(***************************************************************************)
(* The conversation key.                                                   *)
(***************************************************************************)
\* The strings generate_conversation_key() can return.
generate_conversation_key == Keys

\* The lookup without its identity filter.
ConversationExistsAnyOwner(pk, key) ==
    \E i \in RowIds : rows[i].conversation_key = key

\* db.query(Requests).filter(pubkey == pk, conversation_key == key).first()
ConversationExists(pk, key) ==
    \E i \in RowIds : rows[i].pubkey = pk /\ rows[i].conversation_key = key

ResolveConversation(r) ==
    /\ pc[r] = "resolve"
    /\ stages' = [stages EXCEPT ![r] = @ \cup {"resolve"}]
    /\ pc' = [pc EXCEPT ![r] = "create"]
    /\ LET supplied == req[r].conversation_key
           found == supplied # NoneStr /\ ConversationExists(req[r].public_key, supplied)
       IN /\ existing_convo' = [existing_convo EXCEPT ![r] = found]
          /\ IF found
             THEN /\ conversation_key' = [conversation_key EXCEPT ![r] = supplied]
                  /\ minted' = [minted EXCEPT ![r] = FALSE]
             ELSE /\ \E k \in generate_conversation_key :
                        conversation_key' = [conversation_key EXCEPT ![r] = k]
                  /\ minted' = [minted EXCEPT ![r] = TRUE]
    /\ UNCHANGED <<now, dbVars, subVars, sideVars, is_pro_user, today_start,
                   today_request_count, request_id, stream, genVars>>

(***************************************************************************)
(* The Requests row of the turn.                                           *)
(***************************************************************************)
\* The row inserted as already successful.
NewRowSucceeded(pk, key, message, t) ==
    [pubkey |-> pk, conversation_key |-> key, message |-> message,
     success |-> TRUE, response |-> None, verbose |-> None,
     input_token_count |-> NullInt, output_token_count |-> NullInt,
     total_token_count |-> NullInt, time |-> t]

NewRow(pk, key, message, t) ==
    [pubkey |-> pk, conversation_key |-> key, message |-> message,
     success |-> FALSE, response |-> None, verbose |-> None,
     input_token_count |-> NullInt, output_token_count |-> NullInt,
     total_token_count |-> NullInt, time |-> t]

CreateRow(r) ==
    /\ pc[r] = "create"
    /\ stages' = [stages EXCEPT ![r] = @ \cup {"create"}]
    /\ rows' = Append(rows, NewRow(req[r].public_key, conversation_key[r],
                                   req[r].message, now))
    /\ request_id' = [request_id EXCEPT ![r] = Len(rows) + 1]
    /\ pc' = [pc EXCEPT ![r] = "respond"]
    /\ UNCHANGED <<now, users, subVars, sideVars, is_pro_user, today_start,
                   today_request_count, conversation_key, minted,
                   existing_convo, stream, genVars>>

(***************************************************************************)
(* The diagnostic output of the generation library.  It is printed to      *)
(* sys.stdout, which is one per process; DebugCaptureCallbackHandler       *)
(* points it at a buffer of its own for the time of the with block.        *)
(***************************************************************************)
\* The stream the process starts with.
Console == "console"

\* The console and the debug_buffer of each handler.
Sinks == Slots \cup {Console}

\* __init__ and __enter__: remember the current sys.stdout, point it at a
\* fresh buffer, switch the debug flag on.
EnterOutput(r) ==
    /\ original_stdout' = [original_stdout EXCEPT ![r] = sys_stdout]
    /\ sinks' = [sinks EXCEPT ![r] = <<>>]
    /\ sys_stdout' = r
    /\ debug' = TRUE

\* __exit__: put back the remembered stream, switch the debug flag off.
ExitOutput(r) ==
    /\ sys_stdout' = original_stdout[r]
    /\ debug' = FALSE
    /\ UNCHANGED <<original_stdout, sinks>>

(***************************************************************************)
(* stream_response: the generator behind the StreamingResponse.            *)
(***************************************************************************)
Yield(r, chunk) == stream' = [stream EXCEPT ![r] = Append(@, chunk)]

\* The first chunk echoing the key the caller supplied.
FirstChunkSupplied(r) == KeyChunk(req[r].conversation_key)

\* yield json.dumps({"conversation_key": conversation_key}) + "\n"
FirstChunk(r) == KeyChunk(conversation_key[r])

\* First the conversation key.
StreamStart(r) ==
    /\ pc[r] = "respond"
    /\ stages' = [stages EXCEPT ![r] = @ \cup {"stream"}]
    /\ Yield(r, FirstChunk(r))
    /\ pc' = [pc EXCEPT ![r] = "capture"]
    /\ UNCHANGED <<now, dbVars, subVars, sideVars, gateVars, genVars>>

HistoryLimit == 5

Min(a, b) == IF a < b THEN a ELSE b

\* The history filter without its identity condition.
ConversationRowsAnyOwner(pk, key) ==
    {i \in RowIds : rows[i].conversation_key = key}

ConversationRows(pk, key) ==
    {i \in RowIds : rows[i].pubkey = pk /\ rows[i].conversation_key = key}

\* .order_by(Requests.time.desc()).limit(5).all(), then reversed: every answer
\* the store can give (rows of equal time come in any order).
HistoryQuery(pk, key) ==
    LET match == ConversationRows(pk, key)
        n == Min(HistoryLimit, Cardinality(match))
    IN {h \in [1..n -> match] :
          /\ \A i, j \in 1..n : i < j => h[i] # h[j] /\ rows[h[i]].time <= rows[h[j]].time
          /\ \A i \in match : (\A j \in 1..n : h[j] # i) =>
                \A j \in 1..n : rows[i].time <= rows[h[j]].time}

\* with DebugCaptureCallbackHandler(...): the history query opens the block.
EnterCapture(r) ==
    /\ pc[r] = "capture"
    /\ stages' = [stages EXCEPT ![r] = @ \cup {"history"}]
    /\ \E h \in HistoryQuery(req[r].public_key, conversation_key[r]) :
          conversation_history' = [conversation_history EXCEPT ![r] = h]
    /\ pc' = [pc EXCEPT ![r] = "setup"]
    /\ EnterOutput(r)
    /\ UNCHANGED <<now, dbVars, subVars, propagated, faults, reply, gateVars, stream, tools,
                   chat, input_token_count, full_response_text, generated_text,
                   last_db_update, llm_calls, invoked>>

(***************************************************************************)
(* Tool authorization, backend routing and the prompt.                     *)
(***************************************************************************)
RECURSIVE Filter(_, _)
\* [tool for tool in chat_request.tools if tool in available_tools]
Filter(list, allowed) ==
    IF list = <<>> THEN <<>>
    ELSE (IF Head(list) \in allowed THEN <<Head(list)>> ELSE <<>>)
         \o Filter(Tail(list), allowed)

RequestedTools(list) == Filter(list, AvailableTools)

\* The limit counted against the whole tool list, the defaults included.
ToolLimitExceededWithDefaults(pro, requested_tools) ==
    ~pro /\ Len(requested_tools) > 1 + Len(DefaultTools)

\* The free-tier limit of one additional tool.
ToolLimitExceeded(pro, requested_tools) == ~pro /\ Len(requested_tools) > 1

InList(x, list) == \E i \in 1..Len(list) : list[i] = x

RECURSIVE AddTools(_, _)
\* tools.append(tool_instance) unless it is already in tools
AddTools(list, requested_tools) ==
    IF requested_tools = <<>> THEN list
    ELSE AddTools(IF InList(Head(requested_tools), list) THEN list
                  ELSE Append(list, Head(requested_tools)),
                  Tail(requested_tools))

ModelOf(cr) == IF cr.model_name = NoModel THEN DefaultModel ELSE cr.model_name

\* The letters, for str.lower().
UpperCase == <<"A","B","C","D","E","F","G","H","I","J","K","L","M",
               "N","O","P","Q","R","S","T","U","V","W","X","Y","Z">>
LowerCase == <<"a","b","c","d","e","f","g","h","i","j","k","l","m",
               "n","o","p","q","r","s","t","u","v","w","x","y","z">>

\* s.lower()
Lower(s) ==
    [i \in 1..Len(s) |->
        IF \E k \in 1..Len(UpperCase) : UpperCase[k] = s[i]
        THEN LowerCase[CHOOSE k \in 1..Len(UpperCase) : UpperCase[k] = s[i]]
        ELSE s[i]]

\* The endpoints a chat model is created against (NoneStr: the default one
\* of the client library, the first-party API).
InfyrUrl == "https://api.infyr.ai/v1"
OpenRouterUrl == "https://openrouter.ai/api/v1"
LumoMaxTokens == 4096

\* Every model that is not a first-party one sent to the first-party API.
BackendFirstPartyOnly(model_name) ==
    [base_url |-> NoneStr, max_tokens |-> NullInt, tool_calling |-> TRUE]

\* The chat model of the if / elif / else at "Initialize LangChain
\* ChatOpenAI": tool_calling is false where the tool list is emptied.
Backend(model_name) ==
    IF Contains(Lower(model_name), GptMarker)
    THEN [base_url |-> NoneStr, max_tokens |-> NullInt, tool_calling |-> TRUE]
    ELSE IF StartsWith(model_name, LumoPrefix)
    THEN [base_url |-> InfyrUrl, max_tokens |-> LumoMaxTokens, tool_calling |-> FALSE]
    ELSE [base_url |-> OpenRouterUrl, max_tokens |-> NullInt, tool_calling |-> TRUE]

\* The branch taken at "if model_name.startswith('lumo-')": no agent, no tools.
DirectMode(model_name) == StartsWith(model_name, LumoPrefix)

\* The tool list the model is run with.
AuthorizedTools(model_name, requested_tools) ==
    IF DirectMode(model_name) THEN <<>>
    ELSE AddTools(DefaultTools, requested_tools)

BaseSystemMessage == <<"s","y","s">>
MissingWalletInfo == <<"w","w">>
\* get_tools_system_message: a header and one line per tool
ToolsDescriptions(list) ==
    IF list = <<>> THEN <<>> ELSE <<"T">> \o [i \in 1..Len(list) |-> "-"]

SystemMessage(model_name, requested_tools) ==
    IF DirectMode(model_name) THEN BaseSystemMessage
    ELSE BaseSystemMessage \o MissingWalletInfo
         \o ToolsDescriptions(AddTools(DefaultTools, requested_tools))

\* count_tokens on a text: the length of its encoding.
count_tokens(text) == Len(text)

RECURSIVE ChatHistory(_, _)
\* The contents of the chat_history messages built from rows of the store.
ChatHistory(tbl, ids) ==
    IF ids = <<>> THEN <<>>
    ELSE LET row == tbl[Head(ids)] IN
         (IF row.message # <<>> THEN <<row.message>> ELSE <<>>)
         \o (IF row.response.some /\ row.response.val # <<>>
             THEN <<row.response.val>> ELSE <<>>)
         \o ChatHistory(tbl, Tail(ids))

RECURSIVE CountList(_)
CountList(texts) ==
    IF texts = <<>> THEN 0 ELSE count_tokens(Head(texts)) + CountList(Tail(texts))

\* conversation_history[:-1]
AllButLast(seq) == IF seq = <<>> THEN <<>> ELSE SubSeq(seq, 1, Len(seq) - 1)

InputTokenCount(tbl, model_name, requested_tools, history, message) ==
    count_tokens(SystemMessage(model_name, requested_tools))
    + CountList(ChatHistory(tbl, AllButLast(history)))
    + count_tokens(message)

SetRow(id, row) == rows' = [rows EXCEPT ![id] = row]

Setup(r) ==
    /\ pc[r] = "setup"
    /\ stages' = [stages EXCEPT ![r] = @ \cup {"authorize"}]
    /\ LET requested_tools == RequestedTools(req[r].tools)
           model_name == ModelOf(req[r])
       IN IF ToolLimitExceeded(is_pro_user[r], requested_tools)
          THEN /\ Yield(r, ErrorChunk(ToolLimitError))
               /\ pc' = [pc EXCEPT ![r] = "reject_update"]
               /\ UNCHANGED <<tools, chat, input_token_count>>
          ELSE /\ tools' = [tools EXCEPT ![r] = AuthorizedTools(model_name, requested_tools)]
               /\ chat' = [chat EXCEPT ![r] = Backend(model_name)]
               /\ input_token_count' = [input_token_count EXCEPT ![r] =
                     InputTokenCount(rows, model_name, requested_tools,
                                     conversation_history[r], req[r].message)]
               /\ pc' = [pc EXCEPT ![r] = "generate"]
               /\ UNCHANGED stream
    /\ UNCHANGED <<now, dbVars, subVars, sideVars, gateVars, conversation_history,
                   full_response_text, generated_text, last_db_update,
                   llm_calls, invoked>>

\* The row update after the tool-limit error has been yielded.
RejectUpdate(r) ==
    /\ pc[r] = "reject_update"
    /\ SetRow(request_id[r], [rows[request_id[r]] EXCEPT
                                 !.success = FALSE,
                                 !.response = Some(ErrorJson(ToolLimitError))])
    /\ pc' = [pc EXCEPT ![r] = "exit"]
    /\ UNCHANGED <<now, users, subVars, sideVars, stages, gateVars, stream, genVars>>

(***************************************************************************)
(* Generation: model calls, streamed tokens, tool invocations.             *)
(***************************************************************************)
UpdateThreshold == 50

\* Whether a step of the generation of r prints: the agent executor is
\* verbose, the chat model alone prints only under the debug flag.
Prints(r) == debug \/ ~DirectMode(ModelOf(req[r]))

\* A step of the generation of r prints to whatever sys.stdout is.
Emit(r) ==
    /\ sinks' = IF Prints(r) THEN [sinks EXCEPT ![sys_stdout] = Append(@, r)] ELSE sinks
    /\ UNCHANGED <<sys_stdout, debug, original_stdout>>

Hello == <<"H","e","l","l","o",","," ">>
Filler == [i \in 1..45 |-> "x"]
\* The i-th content fragment the backend streams in a turn.
Token(i) == IF i = 1 THEN Hello ELSE Filler

TextChunks(r) == {i \in 1..Len(stream[r]) : stream[r][i].kind = "text"}

\* A model call starts (direct mode: chat.astream; agent mode: a step of the
\* agent loop).
LlmStart(r) ==
    /\ pc[r] = "generate"
    /\ llm_calls[r] < MaxLlmCalls
    /\ stages' = [stages EXCEPT ![r] = @ \cup {"model"}]
    /\ llm_calls' = [llm_calls EXCEPT ![r] = @ + 1]
    /\ pc' = [pc EXCEPT ![r] = "llm"]
    /\ Emit(r)
    /\ UNCHANGED <<now, dbVars, subVars, propagated, faults, reply, gateVars, stream,
                   conversation_history, tools, chat, input_token_count,
                   full_response_text, generated_text, last_db_update, invoked>>

\* The periodic write held back until twice the threshold has accumulated.
PeriodicUpdateDueLate(text, last) == Len(text) - last >= 2 * 50

\* StreamingCallback.on_llm_new_token: whether the periodic write is due.
PeriodicUpdateDue(text, last) == Len(text) - last >= UpdateThreshold

\* Assignment in place of +=.
AccumulateLast(text, token) == token

\* What the loop body appends to full_response_text for a chunk.
Accumulate(text, token) == text \o token

\* A content fragment arrives: the callback runs, then the loop body
\* accumulates it and yields it.
GenToken(r) ==
    /\ pc[r] = "llm"
    /\ Cardinality(TextChunks(r)) < MaxTokens
    /\ LET token == Token(Cardinality(TextChunks(r)) + 1)
           text == generated_text[r] \o token
       IN /\ generated_text' = [generated_text EXCEPT ![r] = text]
          /\ IF PeriodicUpdateDue(text, last_db_update[r])
             THEN /\ SetRow(request_id[r],
                            [rows[request_id[r]] EXCEPT !.response = Some(text)])
                  /\ last_db_update' = [last_db_update EXCEPT ![r] = Len(text)]
             ELSE UNCHANGED <<rows, last_db_update>>
          /\ full_response_text' = [full_response_text EXCEPT ![r] = Accumulate(@, token)]
          /\ Yield(r, TextChunk(token))
    /\ UNCHANGED <<now, users, pc, subVars, sideVars, stages, gateVars,
                   conversation_history, tools, chat, input_token_count, llm_calls,
                   invoked>>

\* StreamingCallback.on_llm_end
OnLlmEnd(row, text) == [row EXCEPT !.response = Some(text), !.success = TRUE]

\* Where the engine goes when a model call has ended: the agent either has
\* its final answer or asks for a tool; the direct chat is finished.
AfterLlm(r) ==
    IF DirectMode(ModelOf(req[r])) \/ llm_calls[r] >= MaxLlmCalls
    THEN {"finalize"}
    ELSE {"finalize", "tool"}

LlmEnd(r) ==
    /\ pc[r] = "llm"
    /\ SetRow(request_id[r], OnLlmEnd(rows[request_id[r]], generated_text[r]))
    /\ \E next \in AfterLlm(r) : pc' = [pc EXCEPT ![r] = next]
    /\ UNCHANGED <<now, users, subVars, sideVars, stages, gateVars, stream, genVars>>

\* The agent executes one of the tools it was given.
ToolCall(r) ==
    /\ pc[r] = "tool"
    /\ tools[r] # <<>>
    /\ invoked' = [invoked EXCEPT ![r] = @ + 1]
    /\ stages' = [stages EXCEPT ![r] = @ \cup {"tool"}]
    /\ pc' = [pc EXCEPT ![r] = "generate"]
    /\ Emit(r)
    /\ UNCHANGED <<now, dbVars, subVars, propagated, faults, reply, gateVars, stream,
                   conversation_history, tools, chat, input_token_count,
                   full_response_text, generated_text, last_db_update, llm_calls>>

\* StreamingCallback.on_llm_error
OnLlmError(row, e) == [row EXCEPT !.success = FALSE, !.response = Some(ErrorPrefix \o e)]

\* Model or tool execution raises: a failing model call runs on_llm_error
\* first; the except clause then yields the error.
GenerationError(r) ==
    /\ pc[r] \in {"generate", "llm", "tool"}
    /\ IF pc[r] = "llm"
       THEN SetRow(request_id[r], OnLlmError(rows[request_id[r]], ExceptionText))
       ELSE UNCHANGED rows
    /\ stages' = [stages EXCEPT ![r] = @ \cup {"error"}]
    /\ Yield(r, ErrorChunk(ExceptionText))
    /\ pc' = [pc EXCEPT ![r] = "error_update"]
    /\ UNCHANGED <<now, users, subVars, sideVars, gateVars, genVars>>

\* The failure recorded as on_llm_error records it, without the counts.
FailedRowKeepsCounts(row, e) ==
    [row EXCEPT !.success = FALSE, !.response = Some(ErrorPrefix \o e)]

\* The failure recorded without touching the response.
FailedRowKeepsResponse(row, e) ==
    [row EXCEPT !.success = FALSE, !.input_token_count = 0,
                !.output_token_count = 0, !.total_token_count = 0]

\* The row as the except clause leaves it.
FailedRow(row, e) ==
    [row EXCEPT !.success = FALSE, !.response = Some(ErrorPrefix \o e),
                !.input_token_count = 0, !.output_token_count = 0,
                !.total_token_count = 0]

ErrorUpdate(r) ==
    /\ pc[r] = "error_update"
    /\ SetRow(request_id[r], FailedRow(rows[request_id[r]], ExceptionText))
    /\ pc' = [pc EXCEPT ![r] = "exit"]
    /\ UNCHANGED <<now, users, subVars, sideVars, stages, gateVars, stream, genVars>>

\* The row as the end of the try block leaves it.
FinalRow(row, input_count, response_text) ==
    [row EXCEPT !.input_token_count = input_count,
                !.output_token_count = count_tokens(response_text),
                !.total_token_count = input_count + count_tokens(response_text),
                !.response = Some(response_text),
                !.success = TRUE]

\* Token accounting, the manual on_llm_end of the direct mode, final commit.
Finalize(r) ==
    /\ pc[r] = "finalize"
    /\ stages' = [stages EXCEPT ![r] = @ \cup {"finalize"}]
    /\ LET row == IF DirectMode(ModelOf(req[r]))
                  THEN OnLlmEnd(rows[request_id[r]], generated_text[r])
                  ELSE rows[request_id[r]]
       IN SetRow(request_id[r], FinalRow(row, input_token_count[r], full_response_text[r]))
    /\ pc' = [pc EXCEPT ![r] = "exit"]
    /\ UNCHANGED <<now, users, subVars, sideVars, gateVars, stream, genVars>>

\* request.verbose = self.debug_buffer.getvalue()
Captured(row, text) == [row EXCEPT !.verbose = Some(text)]

\* DebugCaptureCallbackHandler.__exit__: the captured output goes to the row.
ExitCapture(r) ==
    /\ pc[r] = "exit"
    /\ stages' = [stages EXCEPT ![r] = @ \cup {"exit"}]
    /\ SetRow(request_id[r], Captured(rows[request_id[r]], sinks[r]))
    /\ ExitOutput(r)
    /\ pc' = [pc EXCEPT ![r] = "done"]
    /\ UNCHANGED <<now, users, subVars, propagated, faults, reply, gateVars, stream, genVars>>

(***************************************************************************)
(* The caller goes away while the turn is generated.                       *)
(***************************************************************************)
\* The stream is cancelled at a suspension point of the generation: the
\* cancellation is not an Exception, so the except clause and the rest of the
\* try block are skipped and only the with block is left through __exit__.
Cancel(r) ==
    /\ pc[r] \in {"generate", "llm", "tool"}
    /\ stages' = [stages EXCEPT ![r] = @ \cup {"cancel"}]
    /\ pc' = [pc EXCEPT ![r] = "exit"]
    /\ UNCHANGED <<now, dbVars, subVars, sideVars, gateVars, stream, genVars>>

\* The stream is cancelled while the generator stands at its first yield,
\* the conversation key: the with block has not been entered, so the
\* generator is closed without __enter__ or __exit__ having run.
CancelAtKey(r) ==
    /\ pc[r] = "capture"
    /\ stages' = [stages EXCEPT ![r] = @ \cup {"cancel_key"}]
    /\ pc' = [pc EXCEPT ![r] = "done"]
    /\ UNCHANGED <<now, dbVars, subVars, sideVars, gateVars, stream, genVars>>

(***************************************************************************)
(* Database operations that fail.  Each action is the path the code takes  *)
(* when the operation at that point raises.                                *)
(***************************************************************************)
InternalErrorPrefix == <<"Internal server error: ">>

\* One more database operation fails.
Fails == faults < MaxFaults /\ faults' = faults + 1

\* The quota count, the key lookup or the insert raises: the except clause
\* of process_chat_request returns a response made of one error payload.
GateFault(r) ==
    /\ pc[r] \in {"quota", "resolve", "create"}
    /\ Fails
    /\ stages' = [stages EXCEPT ![r] = @ \cup {"fault_gate"}]
    /\ stream' = [stream EXCEPT ![r] = <<ErrorChunk(InternalErrorPrefix \o ExceptionText)>>]
    /\ pc' = [pc EXCEPT ![r] = "done"]
    /\ UNCHANGED <<now, dbVars, subVars, propagated, reply, outVars, gateVars, genVars>>

\* The history query raises: it stands in the with block but before the try,
\* so __exit__ runs and the exception leaves the generator.
HistoryFault(r) ==
    /\ pc[r] = "capture"
    /\ Fails
    /\ stages' = [stages EXCEPT ![r] = @ \cup {"fault_history"}]
    /\ propagated' = [propagated EXCEPT ![r] = TRUE]
    /\ pc' = [pc EXCEPT ![r] = "exit"]
    /\ EnterOutput(r)
    /\ UNCHANGED <<now, dbVars, subVars, reply, gateVars, stream, genVars>>

\* The periodic write of on_llm_new_token raises: logged, the token goes on.
PeriodicFault(r) ==
    /\ pc[r] = "llm"
    /\ Cardinality(TextChunks(r)) < MaxTokens
    /\ LET token == Token(Cardinality(TextChunks(r)) + 1)
           text == generated_text[r] \o token
       IN /\ PeriodicUpdateDue(text, last_db_update[r])
          /\ generated_text' = [generated_text EXCEPT ![r] = text]
          /\ full_response_text' = [full_response_text EXCEPT ![r] = Accumulate(@, token)]
          /\ Yield(r, TextChunk(token))
    /\ Fails
    /\ stages' = [stages EXCEPT ![r] = @ \cup {"fault_periodic"}]
    /\ UNCHANGED <<now, dbVars, pc, subVars, propagated, reply, outVars, gateVars,
                   conversation_history, tools, chat, input_token_count,
                   last_db_update, llm_calls, invoked>>

\* The write of on_llm_end raises: logged and rolled back.
LlmEndFault(r) ==
    /\ pc[r] = "llm"
    /\ Fails
    /\ stages' = [stages EXCEPT ![r] = @ \cup {"fault_end"}]
    /\ \E next \in AfterLlm(r) : pc' = [pc EXCEPT ![r] = next]
    /\ UNCHANGED <<now, dbVars, subVars, propagated, reply, outVars, gateVars, stream, genVars>>

\* The query or the commit that ends the try block raises: the except clause
\* yields the error and goes on to its own update of the row.
FinalFault(r) ==
    /\ pc[r] = "finalize"
    /\ Fails
    /\ stages' = [stages EXCEPT ![r] = @ \cup {"fault_final"}]
    /\ Yield(r, ErrorChunk(ExceptionText))
    /\ pc' = [pc EXCEPT ![r] = "error_update"]
    /\ UNCHANGED <<now, dbVars, subVars, propagated, reply, outVars, gateVars, genVars>>

\* The update of the except clause raises: logged.
ErrorUpdateFault(r) ==
    /\ pc[r] = "error_update"
    /\ Fails
    /\ stages' = [stages EXCEPT ![r] = @ \cup {"fault_error_update"}]
    /\ pc' = [pc EXCEPT ![r] = "exit"]
    /\ UNCHANGED <<now, dbVars, subVars, propagated, reply, outVars, gateVars, stream, genVars>>

\* The trace write of __exit__ raises: logged.
TraceFault(r) ==
    /\ pc[r] = "exit"
    /\ Fails
    /\ stages' = [stages EXCEPT ![r] = @ \cup {"exit", "fault_trace"}]
    /\ ExitOutput(r)
    /\ pc' = [pc EXCEPT ![r] = "done"]
    /\ UNCHANGED <<now, dbVars, subVars, propagated, reply, gateVars, stream, genVars>>

Fault(r) ==
    \/ GateFault(r)
    \/ HistoryFault(r)
    \/ PeriodicFault(r)
    \/ LlmEndFault(r)
    \/ FinalFault(r)
    \/ ErrorUpdateFault(r)
    \/ TraceFault(r)

(***************************************************************************)
(* The read endpoints: get_conversation_history and get_last_conversations.*)
(* Both are queries on the store; a call leaves its response in reply,     *)
(* with the size of the store and the rows of the conversation it read.    *)
(***************************************************************************)
NotFoundError == <<"Conversation not found">>
RecentLimit == 5
PreviewLength == 50
Ellipsis == <<".", ".", ".">>

\* The sequences listing the rows S of tbl by time, oldest first (asc) or
\* newest first: every order the store may answer in, rows of equal time
\* coming either way round.
TimeOrders(tbl, S, asc) ==
    {h \in [1..Cardinality(S) -> S] :
        \A i, j \in 1..Cardinality(S) :
            i < j => /\ h[i] # h[j]
                     /\ IF asc THEN tbl[h[i]].time <= tbl[h[j]].time
                        ELSE tbl[h[i]].time >= tbl[h[j]].time}

\* The identity filter replaced by a filter on the key alone.
conversation_rows_any_owner(tbl, pk, key) ==
    {i \in 1..Len(tbl) : tbl[i].conversation_key = key}

\* filter(Requests.pubkey == public_key, Requests.conversation_key == key)
conversation_rows(tbl, pk, key) ==
    {i \in 1..Len(tbl) : tbl[i].pubkey = pk /\ tbl[i].conversation_key = key}

\* The entry stamped with the time of the call.
MessageResponseStamped(id, row) ==
    [id |-> id, message |-> row.message, response |-> row.response,
     timestamp |-> now]

MessageResponse(id, row) ==
    [id |-> id, message |-> row.message, response |-> row.response,
     timestamp |-> row.time]

RECURSIVE result_messages(_, _)
\* One MessageResponse per row with msg.success, in the order queried.
result_messages(tbl, ids) ==
    IF ids = <<>> THEN <<>>
    ELSE (IF tbl[Head(ids)].success
          THEN <<MessageResponse(Head(ids), tbl[Head(ids)])>> ELSE <<>>)
         \o result_messages(tbl, Tail(ids))

\* The responses get_conversation_history can give on the store tbl.
get_conversation_history(tbl, pk, sig, key) ==
    IF ~verify_signature(pk, sig)
    THEN {[success |-> FALSE, messages |-> <<>>, error |-> AuthError]}
    ELSE IF conversation_rows(tbl, pk, key) = {}
    THEN {[success |-> FALSE, messages |-> <<>>, error |-> NotFoundError]}
    ELSE {[success |-> TRUE, messages |-> result_messages(tbl, h), error |-> <<>>] :
             h \in TimeOrders(tbl, conversation_rows(tbl, pk, key), TRUE)}

\* message[:50] + "..." for a message longer than 50
message_preview(message) ==
    IF Len(message) > PreviewLength
    THEN SubSeq(message, 1, PreviewLength) \o Ellipsis
    ELSE message

ConversationSummary(row) ==
    [conversation_key |-> row.conversation_key,
     last_message_preview |-> message_preview(row.message),
     timestamp |-> row.time]

\* The subquery: func.max(Requests.time) of the rows of pk under key.
latest_time(tbl, pk, key) ==
    CHOOSE t \in {tbl[i].time : i \in conversation_rows(tbl, pk, key)} :
        \A i \in conversation_rows(tbl, pk, key) : tbl[i].time <= t

\* The join: the rows of pk dated at the latest time of their conversation.
latest_conversations(tbl, pk) ==
    {i \in 1..Len(tbl) :
        /\ tbl[i].pubkey = pk
        /\ tbl[i].time = latest_time(tbl, pk, tbl[i].conversation_key)}

\* The first n entries of a sequence.
Limit(seq, n) == IF Len(seq) <= n THEN seq ELSE SubSeq(seq, 1, n)

\* The responses get_last_conversations can give on the store tbl.
get_last_conversations(tbl, pk, sig) ==
    IF ~verify_signature(pk, sig)
    THEN {[success |-> FALSE, conversations |-> <<>>, error |-> AuthError]}
    ELSE {[success |-> TRUE,
           conversations |-> [i \in 1..Len(Limit(h, RecentLimit)) |->
                                 ConversationSummary(tbl[h[i]])],
           error |-> <<>>] :
             h \in TimeOrders(tbl, latest_conversations(tbl, pk), FALSE)}

\* The callers of the read endpoints, and the conversations they ask for.
ReadCallers == {[public_key |-> pk, signature |-> Sign(pk, pk)] : pk \in PubKeys}
BadCaller == [public_key |-> "U1", signature |-> Sign("garbage", "U1")]
ConversationCalls ==
    {<<c, key>> : c \in ReadCallers, key \in Keys} \cup {<<BadCaller, "k1">>}

\* The rows of pk under key as they stand in tbl, each with its id.
Snapshot(tbl, pk, key) == {<<i, tbl[i]>> : i \in conversation_rows(tbl, pk, key)}

\* router.get_conversation
GetConversation(c, key) ==
    /\ \E res \in get_conversation_history(rows, c.public_key, c.signature, key) :
          reply' = [endpoint |-> "conversation", public_key |-> c.public_key,
                    signature |-> c.signature, conversation_key |-> key,
                    nrows |-> Len(rows), seen |-> Snapshot(rows, c.public_key, key),
                    response |-> res]
    /\ UNCHANGED <<now, dbVars, subVars, pc, stages, gateVars, stream, genVars,
                   propagated, faults, outVars>>

\* router.get_recent_conversations
GetRecentConversations(c) ==
    /\ \E res \in get_last_conversations(rows, c.public_key, c.signature) :
          reply' = [endpoint |-> "last-conversations", public_key |-> c.public_key,
                    signature |-> c.signature, conversation_key |-> NoneStr,
                    nrows |-> Len(rows), seen |-> {}, response |-> res]
    /\ UNCHANGED <<now, dbVars, subVars, pc, stages, gateVars, stream, genVars,
                   propagated, faults, outVars>>


(***************************************************************************)
(* The initial state: a store holding the rows of turns completed earlier  *)
(* (built with the row constructors above), and one idle handler.          *)
(***************************************************************************)
RECURSIVE Ascending(_)
Ascending(S) ==
    IF S = {} THEN <<>>
    ELSE LET m == CHOOSE x \in S : \A y \in S : x <= y
         IN <<m>> \o Ascending(S \ {m})

LastN(seq, n) == IF Len(seq) <= n THEN seq ELSE SubSeq(seq, Len(seq) - n + 1, Len(seq))

\* The store after one more default-model turn of pk in conversation key has
\* completed at time 0 with the response Hello.
SeedTurn(tbl, pk, key) ==
    LET created == Append(tbl, NewRow(pk, key, Message, 0))
        id == Len(created)
        history == LastN(Ascending({i \in 1..id : created[i].pubkey = pk
                                      /\ created[i].conversation_key = key}),
                         HistoryLimit)
        count == InputTokenCount(created, DefaultModel, <<>>, history, Message)
    IN [created EXCEPT ![id] = Captured(FinalRow(created[id], count, Hello), <<>>)]

RECURSIVE SeedTurns(_, _, _, _)
SeedTurns(tbl, pk, key, n) ==
    IF n = 0 THEN tbl ELSE SeedTurns(SeedTurn(tbl, pk, key), pk, key, n - 1)

\* n1 turns of U1 in conversation k1, then n2 turns of U2 in conversation k2.
SeedStore(n1, n2) == SeedTurns(SeedTurns(<<>>, "U1", "k1", n1), "U2", "k2", n2)

\* U1 has the record u1 (none, or one that never had premium); U2 is pro
\* until premium_end.
SeedUsers(u1, premium_end) ==
    [u \in PubKeys |-> IF u = "U2" THEN UserRow(premium_end) ELSE u1]

\* Stores with up to a day's allowance of turns of one identity, U2 being pro
\* beyond the horizon or only until time 1.
Seeds ==
    {[users |-> SeedUsers(NoUser, MaxTime + 1), rows |-> SeedStore(n1, 0)] :
        n1 \in 0..FreeLimit}
    \cup {[users |-> SeedUsers(UserRow(NullInt), e), rows |-> SeedStore(FreeLimit, n2)] :
            n2 \in 1..ProLimit, e \in {1, MaxTime + 1}}

\* All handlers idle over one of the stores of seeds.
InitOver(seeds) ==
    /\ now = 0
    /\ \E seed \in seeds : users = seed.users /\ rows = seed.rows
    /\ pc = [r \in Slots |-> "idle"]
    /\ req = [r \in Slots |-> BlankRequest]
    /\ rows_before = [r \in Slots |-> <<>>]
    /\ today_start = [r \in Slots |-> NullInt]
    /\ stages = [r \in Slots |-> {}]
    /\ is_pro_user = [r \in Slots |-> FALSE]
    /\ today_request_count = [r \in Slots |-> NullInt]
    /\ conversation_key = [r \in Slots |-> NoneStr]
    /\ minted = [r \in Slots |-> FALSE]
    /\ existing_convo = [r \in Slots |-> FALSE]
    /\ request_id = [r \in Slots |-> 0]
    /\ stream = [r \in Slots |-> <<>>]
    /\ conversation_history = [r \in Slots |-> <<>>]
    /\ tools = [r \in Slots |-> <<>>]
    /\ chat = [r \in Slots |-> NoBackend]
    /\ input_token_count = [r \in Slots |-> NullInt]
    /\ full_response_text = [r \in Slots |-> <<>>]
    /\ generated_text = [r \in Slots |-> <<>>]
    /\ last_db_update = [r \in Slots |-> 0]
    /\ llm_calls = [r \in Slots |-> 0]
    /\ invoked = [r \in Slots |-> 0]
    /\ propagated = [r \in Slots |-> FALSE]
    /\ faults = 0
    /\ reply = NoReply
    /\ sys_stdout = Console
    /\ debug = FALSE
    /\ original_stdout = [r \in Slots |-> Console]
    /\ sinks = [s \in Sinks |-> <<>>]

Init == InitOver(Seeds)

(***************************************************************************)
(* Handler h1 processes one submission.                                    *)
(***************************************************************************)
Handle(r) ==
    \/ VerifySignature(r)
    \/ CheckEntitlement(r)
    \/ CheckQuota(r)
    \/ ResolveConversation(r)
    \/ CreateRow(r)
    \/ StreamStart(r)
    \/ EnterCapture(r)
    \/ Setup(r)
    \/ RejectUpdate(r)
    \/ LlmStart(r)
    \/ GenToken(r)
    \/ LlmEnd(r)
    \/ ToolCall(r)
    \/ GenerationError(r)
    \/ ErrorUpdate(r)
    \/ Finalize(r)
    \/ ExitCapture(r)

Next ==
    \/ Tick
    \/ \E cr \in ChatRequests : Submit("h1", cr)
    \/ Handle("h1")

Spec == Init /\ [][Next]_vars

(***************************************************************************)
(* Reading while handler h1 processes one submission of U1 that supplies   *)
(* no conversation key.                                                    *)
(***************************************************************************)
ReadRequests ==
    {ChatRequest("U1", Sign("U1", "U1"), NoneStr, DefaultModel, tl) :
        tl \in {t \in ReqTools : Len(t) # 1}}

\* Stores in which U2 has one turn more than U1, all of the same time.
ReadSeeds ==
    {[users |-> SeedUsers(NoUser, MaxTime + 1), rows |-> SeedStore(n, n + 1)] :
        n \in 0..FreeLimit}

NextRead ==
    \/ Tick
    \/ \E cr \in ReadRequests : Submit("h1", cr)
    \/ Handle("h1")
    \/ \E call \in ConversationCalls : GetConversation(call[1], call[2])
    \/ \E c \in ReadCallers \cup {BadCaller} : GetRecentConversations(c)

SpecRead == InitOver(ReadSeeds) /\ [][NextRead]_vars

(***************************************************************************)
(* Handler h1 processes one submission whose caller may disconnect.        *)
(***************************************************************************)
NextCancel ==
    \/ Tick
    \/ \E cr \in ChatRequests : Submit("h1", cr)
    \/ Handle("h1")
    \/ Cancel("h1")
    \/ CancelAtKey("h1")

SpecCancel == Init /\ [][NextCancel]_vars

(***************************************************************************)
(* Three submissions of the free-tier identity U1 are processed at once,   *)
(* each by a handler of its own (a worker process or a server instance on  *)
(* the same database), from arrival to the creation of the row.  The steps *)
(* of the handlers interleave; what follows the row creation adds no row.  *)
(***************************************************************************)
RaceRequests == {ChatRequest("U1", Sign("U1", "U1"), NoneStr, DefaultModel, <<>>)}

\* U1 is one turn short of the free allowance, or has used it up.
RaceSeeds ==
    {[users |-> SeedUsers(NoUser, MaxTime + 1), rows |-> SeedStore(n, 0)] :
        n \in {FreeLimit - 1, FreeLimit}}

\* process_chat_request up to the return of the StreamingResponse.
Admit(r) ==
    \/ VerifySignature(r)
    \/ CheckEntitlement(r)
    \/ CheckQuota(r)
    \/ ResolveConversation(r)
    \/ CreateRow(r)

NextRace ==
    \/ Tick
    \/ \E r \in Slots, cr \in RaceRequests : Submit(r, cr)
    \/ \E r \in Slots : Admit(r)

SpecRace == InitOver(RaceSeeds) /\ [][NextRace]_vars

(***************************************************************************)
(* Handler h1 processes one submission over a database whose operations    *)
(* may fail.                                                               *)
(***************************************************************************)
NextFault ==
    \/ Tick
    \/ \E cr \in ChatRequests : Submit("h1", cr)
    \/ Handle("h1")
    \/ Fault("h1")

SpecFault == Init /\ [][NextFault]_vars

(***************************************************************************)
(* Handler h1 streams one turn of U1 while the periodic write may fail.    *)
(***************************************************************************)
StreamRequests ==
    ReadRequests \cup {ChatRequest("U1", Sign("U1", "U1"), NoneStr, AllowedModelName.lumo8b, <<>>)}

NextStream ==
    \/ Tick
    \/ \E cr \in StreamRequests : Submit("h1", cr)
    \/ Handle("h1")
    \/ PeriodicFault("h1")

SpecStream == InitOver(ReadSeeds) /\ [][NextStream]_vars

(***************************************************************************)
(* Two turns in one process: handler h1 serves a submission of U1 to the   *)
(* default model, handler h2 one of U2, who is pro, that continues the     *)
(* conversation k2 with a lumo- model.  The generators of the two streams  *)
(* take turns on the event loop, so their steps interleave; the clock      *)
(* stands still meanwhile.                                                 *)
(***************************************************************************)
CaptureRequests(pk) ==
    IF pk = "U1"
    THEN {ChatRequest(pk, Sign(pk, pk), NoneStr, DefaultModel, tl) :
             tl \in {t \in ReqTools : Len(t) # 1}}
    ELSE {ChatRequest(pk, Sign(pk, pk), "k2", AllowedModelName.lumo8b, <<>>)}

CaptureSeeds == {[users |-> SeedUsers(NoUser, MaxTime + 1), rows |-> SeedStore(0, 1)]}

NextCapture ==
    \/ \E cr \in CaptureRequests("U1") : Submit("h1", cr)
    \/ \E cr \in CaptureRequests("U2") : Submit("h2", cr)
    \/ Handle("h1")
    \/ Handle("h2")

SpecCapture == InitOver(CaptureSeeds) /\ [][NextCapture]_vars

(***************************************************************************)
(* Two submissions of the pro identity U1 continue conversations that      *)
(* already have turns; each handler is followed from arrival to the point  *)
(* where the context for the model has been built.                         *)
(***************************************************************************)
\* A completed turn of pk in conversation key, created at time t.
SeedTurnAt(tbl, pk, key, t) ==
    [SeedTurn(tbl, pk, key) EXCEPT ![Len(tbl) + 1].time = t]

\* A turn of pk in conversation key created at time t whose generation failed.
SeedFailedAt(tbl, pk, key, t) ==
    Append(tbl, Captured(FailedRow(NewRow(pk, key, Message, t), ExceptionText), <<>>))

\* Turns of earlier days, never more per day than any allowance: four of U1
\* in k1, the last of them failed, one of U1 in k2 and one of U2 in k1.
HistoryStore ==
    LET s1 == SeedTurnAt(<<>>, "U1", "k1", 0 - 6)
        s3 == SeedTurnAt(s1, "U1", "k1", 0 - 4)
        s4 == SeedTurnAt(s3, "U1", "k2", 0 - 3)
        s5 == SeedTurnAt(s4, "U2", "k1", 0 - 3)
        s6 == SeedTurnAt(s5, "U1", "k1", 0 - 2)
    IN SeedFailedAt(s6, "U1", "k1", 0 - 2)

HistorySeeds ==
    {[users |-> SeedUsers(UserRow(MaxTime + 1), MaxTime + 1), rows |-> HistoryStore]}

HistoryRequests == {ChatRequest("U1", Sign("U1", "U1"), "k1", DefaultModel, <<>>)}

\* process_chat_request and stream_response up to the built context.
Prepare(r) ==
    \/ Admit(r)
    \/ StreamStart(r)
    \/ EnterCapture(r)
    \/ Setup(r)

NextHistory ==
    \/ Tick
    \/ \E r \in {"h1", "h2"}, cr \in HistoryRequests : Submit(r, cr)
    \/ \E r \in {"h1", "h2"} : Prepare(r)

SpecHistory == InitOver(HistorySeeds) /\ [][NextHistory]_vars

(***************************************************************************)
(* Handler h1 processes one submission of the free identity U1 or the pro  *)
(* identity U2, for any model of the schema, or with a tool list that      *)
(* repeats a tool or names tools the registry does not hold.               *)
(***************************************************************************)
SetupTools ==
    {<<>>,
     <<"jupiter_swap_tool">>,
     <<"jupiter_swap_tool", "jupiter_swap_tool">>,
     <<"jupiter_swap_tool", "cmc_crypto_news_tool">>,
     <<"no_such_tool", "jupiter_swap_tool">>,
     <<"wallet_portfolio_tool", "no_such_tool">>}

SetupRequests ==
    {ChatRequest(pk, Sign(pk, pk), NoneStr, model, <<>>) :
        pk \in PubKeys, model \in ModelNames \cup {NoModel}}
    \cup {ChatRequest(pk, Sign(pk, pk), NoneStr, model, tl) :
            pk \in PubKeys, model \in {DefaultModel, AllowedModelName.lumo8b},
            tl \in SetupTools}

SetupSeeds == {[users |-> SeedUsers(NoUser, MaxTime + 1), rows |-> SeedStore(0, 0)]}

NextSetup ==
    \/ \E cr \in SetupRequests : Submit("h1", cr)
    \/ Handle("h1")

SpecSetup == InitOver(SetupSeeds) /\ [][NextSetup]_vars

(***************************************************************************)
(* Properties of the pipeline.                                             *)
(***************************************************************************)
\* The row a handler created for its turn.
Row(r) == rows[request_id[r]]

ValidlySigned(r) == req[r].signature = Sign(req[r].public_key, req[r].public_key)

\* Rows of pk in the store tbl dated at or after start.
CountSince(tbl, pk, start) ==
    Cardinality({i \in 1..Len(tbl) : tbl[i].pubkey = pk /\ tbl[i].time >= start})

\* C1: a submission whose signature does not verify against the claimed
\* public key gets a single error payload and the pipeline stops there: the
\* store is left as the submission found it and no later stage (entitlement,
\* quota, conversation resolution, row creation, model call) is executed.
C1_InvalidSignatureStops ==
    \A r \in Slots :
        (pc[r] \notin {"idle", "verify"} /\ ~ValidlySigned(r)) =>
            /\ pc[r] = "done"
            /\ stream[r] = <<ErrorChunk(AuthError)>>
            /\ stages[r] = {"verify"}
            /\ request_id[r] = 0
            /\ llm_calls[r] = 0
            /\ rows = rows_before[r]

\* An identity with rows in the store whose key was signed by somebody else.
C1_Witness ==
    \E r \in Slots :
        /\ pc[r] = "done"
        /\ req[r].signature = Sign(OtherKey(req[r].public_key), OtherKey(req[r].public_key))
        /\ stream[r] = <<ErrorChunk(AuthError)>>
        /\ CountSince(rows, req[r].public_key, 0) > 0

\* C2: a validly signed submission with a model its tier allows, processed
\* alone, is rejected with a streamed error payload and creates no row when
\* the identity's rows since midnight number the tier allowance or more, and
\* has its row created when they number the allowance minus one.
C2_DailyQuota ==
    \A r \in Slots :
        (pc[r] = "done" /\ "quota" \in stages[r]) =>
            LET count == CountSince(rows_before[r], req[r].public_key, today_start[r])
                allowance == IF is_pro_user[r] THEN ProLimit ELSE FreeLimit
            IN /\ count >= allowance =>
                    /\ stream[r] = <<ErrorChunk(IF is_pro_user[r] THEN ProLimitError
                                                 ELSE FreeLimitError)>>
                    /\ request_id[r] = 0
                    /\ rows = rows_before[r]
               /\ count = allowance - 1 =>
                    /\ request_id[r] = Len(rows_before[r]) + 1
                    /\ Len(rows) = Len(rows_before[r]) + 1
                    /\ Row(r).pubkey = req[r].public_key
                    /\ Row(r).message = req[r].message

\* A pro identity exactly at its allowance is turned away.
C2_Witness ==
    \E r \in Slots :
        /\ pc[r] = "done"
        /\ is_pro_user[r]
        /\ CountSince(rows_before[r], req[r].public_key, today_start[r]) = ProLimit
        /\ stream[r] = <<ErrorChunk(ProLimitError)>>
        /\ rows = rows_before[r]

\* C3: a non-pro caller selecting a model that is neither gpt-4.1-mini nor a
\* lumo- model is rejected with the model-tier error whatever today's count
\* is; the quota is not counted and no row is created.  A pro caller is never
\* rejected by this gate.
C3_ModelTierFirst ==
    \A r \in Slots :
        (pc[r] \notin {"idle", "verify", "entitle"} /\ ValidlySigned(r)) =>
            /\ (/\ ~is_pro_user[r]
                /\ req[r].model_name \notin {NoModel, AllowedModelName.gpt41mini}
                /\ ~StartsWith(req[r].model_name, LumoPrefix)) =>
                    /\ pc[r] = "done"
                    /\ stream[r] = <<ErrorChunk(ModelTierError)>>
                    /\ "quota" \notin stages[r]
                    /\ today_request_count[r] = NullInt
                    /\ request_id[r] = 0
                    /\ rows = rows_before[r]
            /\ is_pro_user[r] =>
                    /\ pc[r] = "quota" \/ "quota" \in stages[r]
                    /\ \A i \in 1..Len(stream[r]) :
                          stream[r][i].kind = "error" => stream[r][i].val # ModelTierError

\* The model-tier rejection of a caller who is already at the free allowance.
C3_Witness ==
    \E r \in Slots :
        /\ pc[r] = "done"
        /\ stream[r] = <<ErrorChunk(ModelTierError)>>
        /\ CountSince(rows, req[r].public_key, DayStart(now)) >= FreeLimit

\* Whether the identity of r had a turn under key in the store it found.
KnownBefore(r, key) ==
    \E i \in 1..Len(rows_before[r]) :
        /\ rows_before[r][i].pubkey = req[r].public_key
        /\ rows_before[r][i].conversation_key = key

\* C4: an admitted submission supplying a conversation key under which its
\* identity has no turn (unknown, or used only by another identity) is not
\* rejected: a newly minted key is used for the turn and returned in the
\* first chunk.  When the identity has a turn under the supplied key, that
\* key is used unchanged.
C4_KeyResolution ==
    \A r \in Slots :
        (pc[r] = "done" /\ "resolve" \in stages[r] /\ req[r].conversation_key # NoneStr) =>
            /\ request_id[r] = Len(rows_before[r]) + 1
            /\ stream[r] # <<>>
            /\ stream[r][1] = KeyChunk(Row(r).conversation_key)
            /\ IF KnownBefore(r, req[r].conversation_key)
               THEN /\ ~minted[r]
                    /\ Row(r).conversation_key = req[r].conversation_key
               ELSE /\ minted[r]
                    /\ Row(r).conversation_key \in generate_conversation_key

\* The supplied key is one that only the other identity has used.
C4_Witness ==
    \E r \in Slots :
        /\ pc[r] = "done"
        /\ request_id[r] # 0
        /\ req[r].conversation_key # NoneStr
        /\ ~KnownBefore(r, req[r].conversation_key)
        /\ \E i \in 1..Len(rows_before[r]) :
              rows_before[r][i].conversation_key = req[r].conversation_key
        /\ minted[r]
        /\ stream[r][1] = KeyChunk(Row(r).conversation_key)

\* C5: for every admitted submission the first fragment on the stream is the
\* resolved conversation key, never model content or an error; nothing is
\* delivered and no model call or failure has happened before it; and it is
\* the conversation_key of the row created for the submission.
C5_KeyFirst ==
    \A r \in Slots :
        request_id[r] # 0 =>
            IF pc[r] = "respond"
            THEN /\ stream[r] = <<>>
                 /\ llm_calls[r] = 0
                 /\ stages[r] \cap {"authorize", "model", "tool", "error"} = {}
            ELSE /\ stream[r] # <<>>
                 /\ stream[r][1] = KeyChunk(conversation_key[r])
                 /\ stream[r][1] = KeyChunk(Row(r).conversation_key)
                 /\ \A i \in 2..Len(stream[r]) : stream[r][i].kind # "conversation_key"

\* The key went out first and generation failed before any content.
C5_Witness ==
    \E r \in Slots :
        /\ pc[r] = "done"
        /\ request_id[r] # 0
        /\ req[r].conversation_key \notin {NoneStr, conversation_key[r]}
        /\ stream[r] = <<KeyChunk(Row(r).conversation_key), ErrorChunk(ExceptionText)>>

\* Whether r is a free-tier turn that asks for more than one known tool.
OverToolLimit(r) ==
    /\ "authorize" \in stages[r]
    /\ ~is_pro_user[r]
    /\ Cardinality({i \in 1..Len(req[r].tools) : req[r].tools[i] \in AvailableTools}) > 1

C7_LumoDirectMode ==
    \A r \in Slots :
        (pc[r] = "done" /\ request_id[r] # 0
            /\ StartsWith(ModelOf(req[r]), LumoPrefix)) =>
            /\ tools[r] = <<>>
            /\ invoked[r] = 0
            /\ "tool" \notin stages[r]
            /\ \A i \in 1..Len(stream[r]) :
                  stream[r][i].kind = "error" => stream[r][i].val # ToolLimitError

\* The text of the content chunks of a stream, in order.
RECURSIVE Concat(_)
Concat(chunks) ==
    IF chunks = <<>> THEN <<>>
    ELSE (IF Head(chunks).kind = "text" THEN Head(chunks).val ELSE <<>>)
         \o Concat(Tail(chunks))

ErrorChunks(r) == {i \in 1..Len(stream[r]) : stream[r][i].kind = "error"}

\* C8: when model or tool execution raises at any point of generation, the
\* exception is caught, exactly one error fragment is appended to the stream
\* as its last chunk, and the row ends with success false and input, output
\* and total token counts 0 (the store accepting the write).
C8_FailureFinalizes ==
    \A r \in Slots :
        (pc[r] = "done" /\ "error" \in stages[r]) =>
            /\ ErrorChunks(r) = {Len(stream[r])}
            /\ stream[r][Len(stream[r])] = ErrorChunk(ExceptionText)
            /\ ~Row(r).success
            /\ Row(r).input_token_count = 0
            /\ Row(r).output_token_count = 0
            /\ Row(r).total_token_count = 0

\* Generation raised after the first model call had delivered content and
\* before any tool had run.
C8_Witness ==
    \E r \in Slots :
        /\ pc[r] = "done"
        /\ "error" \in stages[r]
        /\ invoked[r] = 0
        /\ llm_calls[r] = 1
        /\ generated_text[r] # <<>>
        /\ ~Row(r).success
        /\ Row(r).total_token_count = 0

\* C9 as stated: when generation raises after partial content was delivered,
\* the stored response is exactly that partial text, with success false and
\* token counts 0, and the stream ends with an error chunk.
C9_PartialTextKept ==
    \A r \in Slots :
        (pc[r] = "done" /\ "error" \in stages[r] /\ TextChunks(r) # {}) =>
            /\ Row(r).response = Some(Concat(stream[r]))
            /\ ~Row(r).success
            /\ Row(r).total_token_count = 0
            /\ stream[r][Len(stream[r])].kind = "error"

\* C9: when generation raises after partial content was delivered, the
\* stored response is the formatted error text "Error: <exception>", not the
\* partial text, which only the caller has; success is false, the token
\* counts are 0, and the stream ends with the error chunk.
C9_PartialTextOverwritten ==
    \A r \in Slots :
        (pc[r] = "done" /\ "error" \in stages[r] /\ TextChunks(r) # {}) =>
            /\ Row(r).response = Some(ErrorPrefix \o ExceptionText)
            /\ Row(r).response # Some(Concat(stream[r]))
            /\ ~Row(r).success
            /\ Row(r).input_token_count = 0
            /\ Row(r).output_token_count = 0
            /\ Row(r).total_token_count = 0
            /\ stream[r][Len(stream[r])] = ErrorChunk(ExceptionText)

\* "Hello, " went out, then the model call raised.
C9_Witness ==
    \E r \in Slots :
        /\ pc[r] = "done"
        /\ stream[r] = <<KeyChunk(conversation_key[r]), TextChunk(Hello),
                         ErrorChunk(ExceptionText)>>
        /\ Row(r).response = Some(ErrorPrefix \o ExceptionText)

\* C10: when generation completes without exception, the row ends with
\* success true, a response that is the in-order concatenation of the
\* content fragments delivered after the conversation key, and
\* total_token_count = input_token_count + output_token_count, the output
\* count being the count of that response.
C10_SuccessFinalizes ==
    \A r \in Slots :
        (pc[r] = "done" /\ "finalize" \in stages[r]) =>
            /\ Row(r).success
            /\ stream[r][1].kind = "conversation_key"
            /\ Row(r).response = Some(Concat(Tail(stream[r])))
            /\ Row(r).output_token_count = count_tokens(Concat(Tail(stream[r])))
            /\ Row(r).input_token_count = input_token_count[r]
            /\ Row(r).input_token_count > 0
            /\ Row(r).total_token_count =
                  Row(r).input_token_count + Row(r).output_token_count

\* A turn with two content fragments and a tool invocation has completed.
C10_Witness ==
    \E r \in Slots :
        /\ pc[r] = "done"
        /\ "finalize" \in stages[r]
        /\ Cardinality(TextChunks(r)) = 2
        /\ invoked[r] > 0
        /\ Row(r).response = Some(Hello \o Filler)

\* C11: each admitted submission creates exactly one row, with success false
\* and no response, before any model call; a submission rejected at the
\* signature, model-tier or quota gate creates none; no later step creates a
\* second row for the exchange, and no row the submission found is deleted.
C11_OneRowPerExchange ==
    \A r \in Slots :
        pc[r] # "idle" =>
            /\ request_id[r] # 0 <=> "create" \in stages[r]
            /\ Len(rows) = Len(rows_before[r]) + (IF "create" \in stages[r] THEN 1 ELSE 0)
            /\ \A i \in 1..Len(rows_before[r]) : rows[i] = rows_before[r][i]
            /\ "create" \in stages[r] =>
                  /\ {"verify", "entitlement", "quota", "resolve"} \subseteq stages[r]
                  /\ request_id[r] = Len(rows)
                  /\ Row(r).pubkey = req[r].public_key
            /\ (pc[r] = "done" /\ ("verify" \notin stages[r] \/ "entitlement" \notin stages[r]
                                   \/ "quota" \notin stages[r] \/ stream[r][1].kind = "error")) =>
                  /\ "create" \notin stages[r]
                  /\ rows = rows_before[r]
            /\ ("create" \in stages[r] /\ llm_calls[r] = 0
                    /\ pc[r] \in {"respond", "capture", "setup", "generate"}) =>
                  /\ ~Row(r).success
                  /\ Row(r).response = None

\* The row of a turn stands in a store that already held rows, and the first
\* model call has not started.
C11_Witness ==
    \E r \in Slots :
        /\ pc[r] = "generate"
        /\ llm_calls[r] = 0
        /\ rows_before[r] # <<>>
        /\ Len(rows) = Len(rows_before[r]) + 1
        /\ Row(r).response = None

\* What the lookup of a record u at time t is to return.
ProStatus(u, t) ==
    IF u.exists /\ u.premium_end # NullInt /\ u.premium_end > t
    THEN [is_pro |-> TRUE, days_remaining |-> (u.premium_end - t) \div DayLen]
    ELSE [is_pro |-> FALSE, days_remaining |-> NullInt]

\* C20: the entitlement lookup returns is_pro true exactly when a User record
\* exists with a premium expiry strictly later than the current time; an
\* absent user, a null expiry and a past expiry all give is_pro false with
\* days_remaining null; and no User record is created or modified.
C20_ProStatus ==
    /\ [](\A pk \in PubKeys : check_user_pro_status(pk) = ProStatus(users[pk], now))
    /\ [](\A r \in Slots :
            (pc[r] \notin {"idle", "verify", "entitle"} /\ ValidlySigned(r)) =>
                LET u == users[req[r].public_key] IN
                /\ (~u.exists \/ u.premium_end = NullInt) => ~is_pro_user[r]
                /\ (u.exists /\ u.premium_end > now) => is_pro_user[r])
    /\ [][users' = users]_vars

\* A caller whose premium has run out was looked up and found not pro.
C20_Witness ==
    \E r \in Slots :
        /\ pc[r] = "quota"
        /\ users[req[r].public_key].exists
        /\ users[req[r].public_key].premium_end # NullInt
        /\ users[req[r].public_key].premium_end <= now
        /\ ~is_pro_user[r]

\* The elements of a sequence.
Range(seq) == {seq[i] : i \in 1..Len(seq)}

\* Whether reply answers a call of endpoint by a validly signed caller.
ValidReply(endpoint) ==
    /\ reply.endpoint = endpoint
    /\ reply.signature = Sign(reply.public_key, reply.public_key)

\* The ids of the rows the caller of reply owned under key when it read.
OwnedAtRead(key) ==
    {i \in 1..reply.nrows :
        rows[i].pubkey = reply.public_key /\ rows[i].conversation_key = key}

\* C12: for a validly signed caller, get conversation returns exactly the
\* rows owned by the caller under the requested key whose success flag is
\* true, in ascending time order; it fails with "not found" and no messages
\* when the caller owns no row under the key; and no row of another identity
\* is returned, even one stored under the same key.
C12_ConversationIsOwnersOnly ==
    ValidReply("conversation") =>
        LET res == reply.response
            own == OwnedAtRead(reply.conversation_key)
            shown == {p \in reply.seen : p[2].success}
        IN /\ {p[1] : p \in reply.seen} = own
           /\ IF own = {}
              THEN /\ ~res.success
                   /\ res.messages = <<>>
                   /\ res.error = NotFoundError
              ELSE /\ res.success
                   /\ Len(res.messages) = Cardinality(shown)
                   /\ Range(res.messages) =
                         {[id |-> p[1], message |-> p[2].message,
                           response |-> p[2].response, timestamp |-> p[2].time] :
                             p \in shown}
                   /\ \A i, j \in 1..Len(res.messages) :
                         i < j => res.messages[i].timestamp <= res.messages[j].timestamp
                   /\ \A m \in Range(res.messages) :
                         /\ rows[m.id].pubkey = reply.public_key
                         /\ rows[m.id].conversation_key = reply.conversation_key

\* U1 read a conversation whose key U2 uses as well, and got its own turn.
C12_Witness ==
    /\ ValidReply("conversation")
    /\ reply.public_key = "U1"
    /\ reply.response.success
    /\ Len(reply.response.messages) = 1
    /\ \E i \in 1..reply.nrows :
          /\ rows[i].pubkey = "U2"
          /\ rows[i].conversation_key = reply.conversation_key
          /\ rows[i].success

\* Whether a step goes from the response of one get conversation call to the
\* response of another call by the same caller for the same key.
SameCallAgain ==
    /\ reply.endpoint = "conversation"
    /\ reply'.endpoint = "conversation"
    /\ reply'.public_key = reply.public_key
    /\ reply'.signature = reply.signature
    /\ reply'.conversation_key = reply.conversation_key

C14_RoundTrip ==
    \A r \in Slots :
        (/\ pc[r] = "done"
         /\ "finalize" \in stages[r]
         /\ req[r].conversation_key = NoneStr
         /\ ValidReply("conversation")
         /\ reply.public_key = req[r].public_key
         /\ reply.conversation_key = stream[r][1].val
         /\ <<request_id[r], Row(r)>> \in reply.seen) =>
            /\ reply.response.success
            /\ Len(reply.response.messages) = 1
            /\ reply.response.messages[1].id = request_id[r]

\* The latest time among the rows of the caller of reply under key.
LatestAtRead(key) ==
    CHOOSE t \in {rows[i].time : i \in OwnedAtRead(key)} :
        \A i \in OwnedAtRead(key) : rows[i].time <= t

\* The keys under which the caller of reply had rows when it read.
KeysAtRead ==
    {rows[i].conversation_key :
        i \in {j \in 1..reply.nrows : rows[j].pubkey = reply.public_key}}

\* C15 as stated: for a validly signed caller, list recent conversations
\* returns at most 5 entries, each for a distinct conversation key owned by
\* the caller, ordered by the latest turn time of each conversation, newest
\* first, and they are the caller's most recently active conversations.
C15_RecentConversations ==
    ValidReply("last-conversations") =>
        LET list == reply.response.conversations IN
        /\ reply.response.success
        /\ Len(list) <= RecentLimit
        /\ \A i, j \in 1..Len(list) :
              i < j => /\ list[i].conversation_key # list[j].conversation_key
                       /\ list[i].timestamp >= list[j].timestamp
        /\ \A i \in 1..Len(list) :
              /\ list[i].conversation_key \in KeysAtRead
              /\ list[i].timestamp = LatestAtRead(list[i].conversation_key)
        /\ \A k \in KeysAtRead :
              \/ \E i \in 1..Len(list) : list[i].conversation_key = k
              \/ /\ Len(list) = RecentLimit
                 /\ \A i \in 1..Len(list) : LatestAtRead(k) <= list[i].timestamp
\* C16 as stated: when the stream is cancelled while the generation of a turn
\* is in progress, the row of the turn is still brought to a final state: it
\* holds the text accumulated so far and its token counts, its success flag
\* is false because generation had not reached its end, and it is not left
\* as it was while in progress.
C16_CancelFinalizes ==
    \A r \in Slots :
        (pc[r] = "done" /\ "cancel" \in stages[r]) =>
            /\ Row(r).response = Some(full_response_text[r])
            /\ Row(r).total_token_count # NullInt
            /\ ~Row(r).success
\* The rows of pk created on the day that starts at d.
DayCount(pk, d) ==
    Cardinality({i \in RowIds : rows[i].pubkey = pk /\ DayStart(rows[i].time) = d})

Days == {DayStart(t) : t \in 0..MaxTime}

\* C17 as stated: however many submissions of one identity are processed
\* concurrently, the rows created for the identity within one day exceed the
\* daily allowance of its tier by at most one.
C17_AtMostOneExtra ==
    \A d \in Days : DayCount("U1", d) <= DailyLimit(FALSE) + 1

\* C17: when submissions of one identity are processed concurrently, the
\* rows created for the identity within one day exceed the daily allowance
\* of its tier by at most the number of submissions processed at once, less
\* one: every submission that counted before the others inserted is admitted.
C17_ExtraBelowConcurrency ==
    \A d \in Days : DayCount("U1", d) <= DailyLimit(FALSE) + Cardinality(Slots) - 1

\* All three submissions were counted before any row was inserted, and the
\* day now holds two rows more than the allowance.
C17_Witness ==
    /\ \A r \in Slots : pc[r] = "respond" /\ today_request_count[r] = FreeLimit - 1
    /\ DayCount("U1", DayStart(now)) = FreeLimit + 2
\* Whether the stream of r ends with an error payload.
EndsWithError(r) ==
    stream[r] # <<>> /\ stream[r][Len(stream[r])].kind = "error"

\* C18 as stated: every exception raised while a submission is handled, in
\* the gating stages, at row creation, at the history query or at the trace
\* write, becomes a streamed error payload, and none leaves the handler or
\* the stream unconverted.
C18_EveryExceptionConverted ==
    \A r \in Slots :
        /\ ~propagated[r]
        /\ (/\ pc[r] = "done"
            /\ stages[r] \cap {"fault_gate", "fault_history", "fault_trace"} # {}) =>
                EndsWithError(r)

\* C19 as stated: when a database write fails during a turn whose generation
\* succeeds (a periodic update, the write at the end of a model call, the
\* final commit or the trace write), the caller still receives every content
\* fragment in order and no error payload is added to the stream.
C19_WriteFailureOnlyLogged ==
    \A r \in Slots :
        (/\ pc[r] = "done"
         /\ stages[r] \cap {"finalize", "fault_final"} # {}
         /\ stages[r] \cap {"fault_periodic", "fault_end", "fault_final",
                             "fault_trace"} # {}) =>
            /\ ErrorChunks(r) = {}
            /\ Concat(stream[r]) = full_response_text[r]
\* C21 as stated: the success flag of a turn stays false from the creation
\* of its row until the final commit made when the whole generation has
\* completed; no step before it (the end of a model call of the agent loop in
\* particular) sets it, and success, final response and token counts appear
\* together.
C21_SuccessOnlyAtFinalCommit ==
    \A r \in Slots :
        (request_id[r] # 0 /\ Row(r).success) =>
            /\ "finalize" \in stages[r]
            /\ Row(r).response = Some(full_response_text[r])
            /\ Row(r).total_token_count # NullInt

\* Whether the generation of r is under way.
Streaming(r) == pc[r] \in {"generate", "llm", "tool", "finalize"}

\* Whether a is an initial segment of b.
IsPrefix(a, b) == Len(a) <= Len(b) /\ SubSeq(b, 1, Len(a)) = a

\* C22: while a turn is streaming, after every token the stored response is
\* a prefix of the text accumulated so far; as long as no periodic write
\* has failed, the accumulated length exceeds the length at the last write
\* by less than the threshold of 50; and once a periodic write has failed
\* the mark of the last write stays behind, so that the write is due again
\* at the next token.
C22_PeriodicWrite ==
    /\ [](\A r \in Slots :
            Streaming(r) =>
                /\ Row(r).response.some =>
                      IsPrefix(Row(r).response.val, generated_text[r])
                /\ last_db_update[r] <= Len(generated_text[r])
                /\ "fault_periodic" \notin stages[r] =>
                      Len(generated_text[r]) - last_db_update[r] < UpdateThreshold)
    /\ [][\A r \in Slots :
            ("fault_periodic" \notin stages[r] /\ "fault_periodic" \in stages'[r]) =>
                /\ last_db_update'[r] = last_db_update[r]
                /\ Len(generated_text'[r]) - last_db_update'[r] >= UpdateThreshold]_vars

\* A periodic write has stored the text accumulated so far while the model
\* call is still running.
C22_Witness ==
    \E r \in Slots :
        /\ pc[r] = "llm"
        /\ last_db_update[r] >= UpdateThreshold
        /\ Row(r).response = Some(generated_text[r])
        /\ ~Row(r).success

\* A periodic write has failed and left its mark behind.
C22_WitnessFailedWrite ==
    \E r \in Slots :
        /\ pc[r] = "llm"
        /\ "fault_periodic" \in stages[r]
        /\ Len(generated_text[r]) - last_db_update[r] >= UpdateThreshold
\* C23 as stated: for every admitted turn whose stream has started, the
\* trace field of the row is written once the generation has ended and not
\* before, on every exit path: completion, generation failure, rejection for
\* the tool limit, and cancellation by the caller.
C23_TraceWrittenAtEnd ==
    \A r \in Slots :
        ("stream" \in stages[r]) =>
            /\ pc[r] # "done" => ~Row(r).verbose.some
            /\ pc[r] = "done" => Row(r).verbose.some
\* Whether handler r is inside its with block.
InCapture(r) ==
    pc[r] \in {"setup", "reject_update", "generate", "llm", "tool",
               "error_update", "finalize", "exit"}

\* C24 as stated: when the generations of two turns interleave, each turn
\* has a trace sink of its own: the trace stored for a turn holds all the
\* diagnostic output of the generation of that turn and none of the other's.
C24_IsolatedTrace ==
    \A r \in Slots :
        (pc[r] = "done" /\ "exit" \in stages[r]) =>
            /\ \A i \in 1..Len(Row(r).verbose.val) : Row(r).verbose.val[i] = r
            /\ \A s \in Sinks \ {r} : \A i \in 1..Len(sinks[s]) : sinks[s][i] # r

\* C30 as stated: once every turn that has entered its trace capture has
\* left it, in whatever order the turns entered and left, sys.stdout is the
\* stream the process started with, not the buffer of a finished turn.
C30_StdoutRestored ==
    (\A r \in Slots : ~InCapture(r)) => sys_stdout = Console
\* The ids of the prior turns handed to the model for the turn of r.
Context(r) == AllButLast(conversation_history[r])

\* Whether the step is the history query of r.
QueriesHistory(r) == pc[r] = "capture" /\ pc'[r] = "setup"

\* The rows of the conversation of r, its own row included.
OwnConversation(r) ==
    {i \in RowIds : /\ rows[i].pubkey = req[r].public_key
                    /\ rows[i].conversation_key = conversation_key[r]}

\* What C25 and its amendment share: at most 4 turns, each of the identity
\* and the conversation of the turn, no turn twice, oldest to newest.
ContextShape(r, ctx) ==
    /\ Len(ctx) <= HistoryLimit - 1
    /\ \A i \in 1..Len(ctx) : ctx[i] \in OwnConversation(r)
    /\ \A i, j \in 1..Len(ctx) :
          i < j => ctx[i] # ctx[j] /\ rows[ctx[i]].time <= rows[ctx[j]].time

C26_ContextExcludesOwnRow ==
    \A r \in Slots :
        ("history" \in stages[r]) =>
            \A i \in 1..Len(Context(r)) : Context(r)[i] < request_id[r]

\* C27 as stated: every prior turn in the context passed to the model is a
\* completed exchange, a row with success true and a response; failed turns
\* and turns still being generated are never handed to the model.
C27_ContextCompletedOnly ==
    \A r \in Slots :
        ("authorize" \in stages[r] /\ pc[r] = "generate") =>
            \A i \in 1..Len(Context(r)) :
                /\ rows[Context(r)[i]].success
                /\ rows[Context(r)[i]].response.some
\* Whether the turn of r was rejected for the tool limit.
ToolLimitRejected(r) ==
    \E i \in ErrorChunks(r) : stream[r][i].val = ToolLimitError

\* Whether the chat model of the turn of r has been set up.
Routed(r) == "authorize" \in stages[r] /\ ~ToolLimitRejected(r)

\* The models of the schema by the rule of the decision table that takes them.
FirstPartyModels ==
    {AllowedModelName.gpt41, AllowedModelName.gpt41mini, AllowedModelName.gpt4o}
SecondaryModels ==
    {AllowedModelName.lumo70b, AllowedModelName.lumo8b, AllowedModelName.lumods8b}
AggregatedModels ==
    {AllowedModelName.claude, AllowedModelName.gemini, AllowedModelName.llama}

\* C28: for every model of the schema the router selects one backend by
\* the rules in order: a name containing gpt gives the first-party endpoint
\* with tool calling; otherwise the prefix lumo- gives the secondary endpoint
\* with an output ceiling of 4096 and no tool calling; otherwise the
\* aggregation endpoint with tool calling.  The engine runs in direct mode,
\* without tools, exactly when the backend has no tool calling.
C28_BackendRouting ==
    \A r \in Slots :
        Routed(r) =>
            LET m == ModelOf(req[r]) IN
            /\ m \in FirstPartyModels \cup SecondaryModels \cup AggregatedModels
            /\ m \in FirstPartyModels =>
                  chat[r] = [base_url |-> NoneStr, max_tokens |-> NullInt,
                             tool_calling |-> TRUE]
            /\ m \in SecondaryModels =>
                  chat[r] = [base_url |-> InfyrUrl, max_tokens |-> 4096,
                             tool_calling |-> FALSE]
            /\ m \in AggregatedModels =>
                  chat[r] = [base_url |-> OpenRouterUrl, max_tokens |-> NullInt,
                             tool_calling |-> TRUE]
            /\ chat[r].tool_calling = (tools[r] # <<>>)
            /\ ~chat[r].tool_calling => (invoked[r] = 0 /\ llm_calls[r] <= 1)

\* A turn of a model that is neither first-party nor lumo- generates against
\* the aggregation endpoint, and one of a lumo- model has completed.
C28_Witness ==
    \E r \in Slots :
        /\ Routed(r)
        /\ \/ /\ ModelOf(req[r]) \in AggregatedModels
              /\ chat[r].base_url = OpenRouterUrl
              /\ "tool" \in stages[r]
           \/ /\ ModelOf(req[r]) \in SecondaryModels
              /\ chat[r].base_url = InfyrUrl
              /\ pc[r] = "done" /\ "finalize" \in stages[r]

\* C29 as stated: a free-tier submission is rejected for the tool limit if
\* and only if it requests more than one distinct known additional tool
\* (unknown names are dropped and not counted, a repeated name counts once),
\* a pro submission is never rejected for it, and the tools of an admitted
\* agent-mode turn hold both defaults and no tool twice.
C29_ToolLimit ==
    \A r \in Slots :
        ("authorize" \in stages[r]) =>
            /\ ToolLimitRejected(r) <=>
                  /\ ~is_pro_user[r]
                  /\ Cardinality(Range(req[r].tools) \cap AvailableTools) > 1
            /\ (~ToolLimitRejected(r) /\ chat[r].tool_calling) =>
                  /\ \A d \in Range(DefaultTools) : d \in Range(tools[r])
                  /\ Cardinality(Range(tools[r])) = Len(tools[r])

=============================================================================
